---------------------------- MODULE Spec2Model ----------------------------
(***************************************************************************)
(* Model of the physics integration engine of the repository:              *)
(*   - Simulate_Radial_Fall and Interpolate_R_T_With_Stop                   *)
(*     (src/020-Radial-Fall-Movie.py),                                      *)
(*   - Simulate_With_Tangential_Kick (src/031-Orbit-Kick.py, identical in   *)
(*     src/031-Orbit-Kick-R2.py) and its weak-field sibling                 *)
(*     Simulate_Orbit_GR_With_Tangential_Kick (src/032-Orbit-Kick-ART.py).  *)
(*   - Simulate_Multi_Circular_Orbits (src/030-Circular-Orbit.py).         *)
(* and of the file import command _Cmd_Import_Text_File (src/dings-gpt.py). *)
(*                                                                         *)
(* Python floats are modelled as fixed-point numbers: the integer n stands  *)
(* for the real n / Q.  Every product and quotient is rounded to the grid   *)
(* (toward minus infinity), as every float operation is rounded to the      *)
(* float grid.  Python list index i is sequence index i + 1.                *)
(***************************************************************************)
EXTENDS Integers, Sequences, FiniteSets, TLC

(***************************************************************************)
(* Bounds of the model.                                                    *)
(***************************************************************************)
\* fixed-point units per 1.0
Q == 64
\* largest Step_Count handed to Simulate_Radial_Fall
MaxFallSteps == 5
\* number of entries of T_Query_Array
MaxFrames == 2
\* query times are the multiples of Q/2 up to MaxQuery * Q / 2
MaxQuery == 8
\* T_Total of the kick simulators is at most MaxKickSpan * Q / 2
MaxKickSpan == 4
\* largest Step_Count handed to Simulate_Multi_Circular_Orbits
MaxOrbitSteps == 3
\* largest number of entries of its R_List
MaxBodies == 3

(***************************************************************************)
(* Float arithmetic on the fixed-point grid.                               *)
(***************************************************************************)
FMul(a, b) == (a * b) \div Q

FDiv(a, b) == (a * Q) \div b

Half == Q \div 2

Last(s) == s[Len(s)]

Max2(a, b) == IF a >= b THEN a ELSE b

Min2(a, b) == IF a <= b THEN a ELSE b

\* bisection; the midpoint is bound to a value before it is used
RECURSIVE Sqrt_Search(_, _, _)
Sqrt_Search(n, lo, hi) ==
    IF lo >= hi THEN lo
    ELSE LET Go(mid) == IF mid * mid <= n THEN Sqrt_Search(n, mid, hi)
                                         ELSE Sqrt_Search(n, lo, mid - 1)
         IN CHOOSE r \in {Go(m) : m \in {(lo + hi + 1) \div 2}} : TRUE

\* floor of the square root of n >= 0
ISqrt(n) == CHOOSE r \in {Sqrt_Search(m, 0, Min2(m, 46340)) : m \in {n}} : TRUE

\* x ** n for an integer exponent n (n < 0: the reciprocal)
RECURSIVE Pow(_, _)
Pow(x, n) ==
    IF n = 0 THEN Q
    ELSE IF n < 0 THEN FDiv(Q, Pow(x, -n))
    ELSE FMul(Pow(x, n - 1), x)

\* ln 2 on the grid
Ln2 == (693 * Q) \div 1000

\* math.log(x), x > 0: exact at the powers of two, linear between them
RECURSIVE Ln(_)
Ln(x) ==
    IF x >= 2 * Q THEN Ln(x \div 2) + Ln2
    ELSE IF x < Q THEN Ln(2 * x) - Ln2
    ELSE FMul(x - Q, Ln2)

\* vectors are sequences of Dim numbers
Zeros(Dim) == [i \in 1..Dim |-> 0]

VAdd(a, b) == [i \in 1..Len(a) |-> a[i] + b[i]]

\* scalar * vector
VScale(k, a) == [i \in 1..Len(a) |-> FMul(k, a[i])]

\* vector / scalar
VDivide(a, k) == [i \in 1..Len(a) |-> FDiv(a[i], k)]

RECURSIVE Sum_Squares(_, _)
Sum_Squares(a, n) == IF n = 0 THEN 0 ELSE Sum_Squares(a, n - 1) + a[n] * a[n]

\* Np.linalg.norm: sqrt(sum (a[i]/Q)^2) * Q = sqrt(sum a[i]^2)
Norm(a) == ISqrt(Sum_Squares(a, Len(a)))

\* Np.dot on fixed-point vectors
Dot(a, b) == FMul(a[1], b[1]) + FMul(a[2], b[2]) + FMul(a[3], b[3])

\* Np.cross of two 3-vectors
Cross(a, b) ==
    <<FMul(a[2], b[3]) - FMul(a[3], b[2]),
      FMul(a[3], b[1]) - FMul(a[1], b[3]),
      FMul(a[1], b[2]) - FMul(a[2], b[1])>>

\* math.ceil(n / d), d > 0
Ceil_Div(n, d) == -((-n) \div d)

\* mutant: int(n / d) instead of round(n / d)
Round_Down(n, d) == n \div d

\* round(n / d), d > 0: to the nearest integer, ties to the even one
Round_Half_Even(n, d) ==
    LET q == n \div d
        r == n - q * d
    IN IF 2 * r < d THEN q
       ELSE IF 2 * r > d THEN q + 1
       ELSE IF q % 2 = 0 THEN q ELSE q + 1

(***************************************************************************)
(* State.                                                                  *)
(***************************************************************************)
VARIABLES
    prog,        \* which entry point runs: "fall", "kick", "orbit", "import"
    pc,          \* position of the run
    In,          \* the arguments of the call
    \* --- Simulate_Radial_Fall
    R, V, T,     \* locals R, V, T
    Iter,        \* number of iterations of `for _ in range(Step_Count)` begun
    Time_List, R_List,
    Exit,        \* how the loop was left: "none", "guard", "clamp", "exhausted"
    \* --- Interpolate_R_T_With_Stop
    T_Query, T_Out, R_Out,
    \* --- Simulate_With_Tangential_Kick / Simulate_Orbit_GR_With_Tangential_Kick
    Pos, Vel,    \* locals Pos, Vel
    Step,        \* loop variable of `for Step in range(Step_Count)`
    Step_Count, Kick_Step, Kick_Done,
    Pos_Array, Vel_Array, E_Array, Lz_Array, S_Array, T_Array,
    Age,         \* history: number of integrator steps applied to (Pos, Vel)
    Age_Array,   \* history: Age of the state stored at each index (-1: none)
    Kick_Log,    \* history: one record per execution of the kick block
    \* --- Simulate_Multi_Circular_Orbits
    X, Y, Vx, Vy,        \* one entry per body
    Orbit_Step,          \* loop variable Step of `for Step in range(Step_Count)`
    X_Array, Y_Array,    \* X_Array[I][Step]: one row per body
    \* --- Make_Animation, Make_GR_Animation, Make_Orbit_And_Line_Animation
    Frame,               \* Fps, Time_Scale, T_Total and Frame_Count of the video
    Idx,                 \* Idx[f]: the trace index shown in frame f (from 0)
    \* --- _Cmd_Import_Text_File (src/dings-gpt.py)
    Dir,                 \* the directory: source, data file, alias, side-car
    Error                \* which _Die ended the command ("none": none so far)

fallVars == <<R, V, T, Iter, Time_List, R_List, Exit>>
interpVars == <<T_Query, T_Out, R_Out>>
kickVars == <<Pos, Vel, Step, Step_Count, Kick_Step, Kick_Done, Pos_Array,
              Vel_Array, E_Array, Lz_Array, S_Array, T_Array, Age, Age_Array,
              Kick_Log>>
orbitVars == <<X, Y, Vx, Vy, Orbit_Step, X_Array, Y_Array>>
frameVars == <<Frame, Idx>>
importVars == <<Dir, Error>>
vars == <<prog, pc, In, fallVars, interpVars, kickVars, orbitVars, frameVars, importVars>>

\* the variables of the entry point that does not run
Fall_Idle ==
    /\ R = 0 /\ V = 0 /\ T = 0 /\ Iter = 0
    /\ Time_List = <<>> /\ R_List = <<>> /\ Exit = "none"
    /\ T_Query = <<>> /\ T_Out = <<>> /\ R_Out = <<>>

Kick_Idle ==
    /\ Pos = <<>> /\ Vel = <<>> /\ Step = 0 /\ Step_Count = 0
    /\ Kick_Step = 0 /\ Kick_Done = FALSE
    /\ Pos_Array = <<>> /\ Vel_Array = <<>> /\ E_Array = <<>>
    /\ Lz_Array = <<>> /\ S_Array = <<>> /\ T_Array = <<>>
    /\ Age = 0 /\ Age_Array = <<>> /\ Kick_Log = <<>>

Orbit_Idle ==
    /\ X = <<>> /\ Y = <<>> /\ Vx = <<>> /\ Vy = <<>>
    /\ Orbit_Step = 0 /\ X_Array = <<>> /\ Y_Array = <<>>

\* no video has been set up yet
No_Frame == [Fps |-> 0, Time_Scale |-> 0, T_Total |-> 0, Frame_Count |-> 0]

Frame_Idle == Frame = No_Frame /\ Idx = <<>>

\* the import command does not run
No_Dir == [Source |-> FALSE, Data |-> "none", Alias |-> "none", Md |-> "none"]

Import_Idle == Dir = No_Dir /\ Error = "none"

(***************************************************************************)
(* Simulate_Radial_Fall                                                    *)
(***************************************************************************)
\* G = 0 and Dt = 0 are the configurations the specification calls invalid
Fall_G_Set == {0, 16 * Q, 64 * Q}
Fall_R_Start_Set == {Q, 4 * Q, 8 * Q}
Fall_V_Start_Set == {0, -Q, 2 * Q}
Fall_Dt_Set == {0, Half, Q}
Fall_R_Min_Set == {0, Q}

Fall_Inputs ==
    [G : Fall_G_Set, R_Start : Fall_R_Start_Set, V_Start : Fall_V_Start_Set,
     Dt : Fall_Dt_Set, Step_Count : 0..MaxFallSteps, R_Min : Fall_R_Min_Set]

\* def Acc(R_Value): return -G / R_Value
Acc(G, R_Value) == FDiv(-G, R_Value)

\* R_New = R + V * Dt + 0.5 * A0 * Dt * Dt
Fall_R_New(r, v, A0, Dt) == r + FMul(v, Dt) + FMul(FMul(FMul(Half, A0), Dt), Dt)

\* V_New = V + 0.5 * (A0 + A1) * Dt
Fall_V_New(v, A0, A1, Dt) == v + FMul(FMul(Half, A0 + A1), Dt)

\* mutant: one iteration too many
Range_Has_Next_Inclusive(i, n) == i <= n

\* for _ in range(Step_Count): another iteration is due
Range_Has_Next(i, n) == i < n

\* mutant: a body exactly on the boundary is stepped once more
Fall_At_Boundary_Strict(r, R_Min) == r < R_Min

\* if R <= R_Min: break
Fall_At_Boundary(r, R_Min) == r <= R_Min

\* mutant: the tentative radius is compared with the centre, not with R_Min
Fall_Crosses_Centre(R_New, R_Min) == R_New <= 0

\* if R_New <= R_Min:
Fall_Crosses(R_New, R_Min) == R_New <= R_Min

\* mutant: the clamp is forgotten, the tentative radius is recorded
Fall_Clamp_Radius_Unclamped(R_New, R_Min) == R_New

\* R = R_Min
Fall_Clamp_Radius(R_New, R_Min) == R_Min

\* the loop of lines 41-62 as a function of the locals: <<T, R, number of
\* entries recorded>> when the loop is left after at most n more iterations
RECURSIVE Fall_Loop(_, _, _, _, _, _, _, _)
Fall_Loop(G, r, v, t, Dt, n, R_Min, Count) ==
    IF ~Range_Has_Next(0, n) \/ Fall_At_Boundary(r, R_Min) THEN <<t, r, Count>>
    ELSE LET Go(A0, R_New) ==
                 IF Fall_Crosses(R_New, R_Min)
                 THEN <<t + Dt, Fall_Clamp_Radius(R_New, R_Min), Count + 1>>
                 ELSE Fall_Loop(G, R_New, Fall_V_New(v, A0, Acc(G, R_New), Dt),
                                t + Dt, Dt, n - 1, R_Min, Count + 1)
         IN CHOOSE x \in {Go(a, Fall_R_New(r, v, a, Dt)) : a \in {Acc(G, r)}} : TRUE

\* Simulate_Radial_Fall as a function of its arguments: <<T_Array[-1],
\* R_Array[-1], len(T_Array)>> of the trace it returns (for an empty trace the
\* first two are the start values)
Simulate_Radial_Fall(G, R_Start, V_Start, Dt, n, R_Min) ==
    Fall_Loop(G, R_Start, V_Start, 0, Dt, n, R_Min, 0)

Fall_Init ==
    /\ Frame_Idle
    /\ Import_Idle
    /\ prog = "fall"
    /\ pc = "fall"
    /\ In \in Fall_Inputs
    /\ R = In.R_Start
    /\ V = In.V_Start
    /\ T = 0
    /\ Iter = 0
    /\ Time_List = <<>>
    /\ R_List = <<>>
    /\ Exit = "none"
    /\ T_Query = <<>>
    /\ T_Out = <<>>
    /\ R_Out = <<>>
    /\ Kick_Idle
    /\ Orbit_Idle

\* lines 41-43: the loop is entered with R already at or below R_Min
Fall_Break ==
    /\ prog = "fall" /\ pc = "fall"
    /\ Range_Has_Next(Iter, In.Step_Count)
    /\ Fall_At_Boundary(R, In.R_Min)
    /\ Iter' = Iter + 1
    /\ Exit' = "guard"
    /\ pc' = "interp"
    /\ UNCHANGED <<prog, In, R, V, T, Time_List, R_List, interpVars, kickVars, orbitVars, frameVars, importVars>>

\* lines 41-53: the tentative radius crosses R_Min; clamp, record, break
Fall_Clamp ==
    /\ prog = "fall" /\ pc = "fall"
    /\ Range_Has_Next(Iter, In.Step_Count)
    /\ ~Fall_At_Boundary(R, In.R_Min)
    /\ LET A0 == Acc(In.G, R)
           R_New == Fall_R_New(R, V, A0, In.Dt)
       IN /\ Fall_Crosses(R_New, In.R_Min)
          /\ R' = Fall_Clamp_Radius(R_New, In.R_Min)
          /\ T' = T + In.Dt
          /\ Time_List' = Append(Time_List, T')
          /\ R_List' = Append(R_List, R')
    /\ Iter' = Iter + 1
    /\ Exit' = "clamp"
    /\ pc' = "interp"
    /\ UNCHANGED <<prog, In, V, interpVars, kickVars, orbitVars, frameVars, importVars>>

\* lines 41-62: one velocity-Verlet step, recorded
Fall_Step ==
    /\ prog = "fall" /\ pc = "fall"
    /\ Range_Has_Next(Iter, In.Step_Count)
    /\ ~Fall_At_Boundary(R, In.R_Min)
    /\ LET A0 == Acc(In.G, R)
           R_New == Fall_R_New(R, V, A0, In.Dt)
           A1 == Acc(In.G, R_New)
           V_New == Fall_V_New(V, A0, A1, In.Dt)
       IN /\ ~Fall_Crosses(R_New, In.R_Min)
          /\ R' = R_New
          /\ V' = V_New
          /\ T' = T + In.Dt
          /\ Time_List' = Append(Time_List, T')
          /\ R_List' = Append(R_List, R')
    /\ Iter' = Iter + 1
    /\ UNCHANGED <<prog, pc, In, Exit, interpVars, kickVars, orbitVars, frameVars, importVars>>

\* lines 41, 64: range(Step_Count) is used up
Fall_Exhausted ==
    /\ prog = "fall" /\ pc = "fall"
    /\ ~Range_Has_Next(Iter, In.Step_Count)
    /\ Exit' = "exhausted"
    /\ pc' = "interp"
    /\ UNCHANGED <<prog, In, R, V, T, Iter, Time_List, R_List, interpVars, kickVars, orbitVars, frameVars, importVars>>

(***************************************************************************)
(* Interpolate_R_T_With_Stop, called on the trace of the radial fall       *)
(***************************************************************************)
Query_Set == {k * Half : k \in 0..MaxQuery}

\* index j of the sample with xp[j] <= x < xp[j+1], for xp[1] <= x < Last(xp)
Bracket(xp, x) == CHOOSE j \in 1..(Len(xp) - 1) : xp[j] <= x /\ x < xp[j + 1]

\* mutant: the sample before x is held, also when x is a sample time itself
Np_Interp_Hold_Previous(x, xp, fp) ==
    IF x <= xp[1] THEN fp[1]
    ELSE fp[CHOOSE j \in 1..(Len(xp) - 1) : xp[j] < x /\ x <= xp[j + 1]]

\* numpy.interp(x, xp, fp) for increasing xp: ends are held, knots are exact,
\* between two knots slope * (x - xp[j]) + fp[j]
Np_Interp(x, xp, fp) ==
    IF x <= xp[1] THEN fp[1]
    ELSE IF x >= Last(xp) THEN Last(fp)
    ELSE LET j == Bracket(xp, x)
             slope == FDiv(fp[j + 1] - fp[j], xp[j + 1] - xp[j])
         IN IF x = xp[j] THEN fp[j] ELSE FMul(slope, x - xp[j]) + fp[j]

\* mutant: the radius is frozen but the time keeps running
Interp_Stop_Time_Runs(Tq, T_End, R_End) == <<Tq, R_End>>

\* mutant: past the end of the trace the body is shown in the centre
Interp_Stop_In_Centre(Tq, T_End, R_End) == <<T_End, 0>>

\* the else branch: T_Out[I] = T_End; R_Out[I] = R_End
Interp_Stop(Tq, T_End, R_End) == <<T_End, R_End>>

\* body of `for I, Tq in enumerate(T_Query_Array)`
Interp_One(Tq, Ta, Ra) ==
    LET T_End == Last(Ta)
        R_End == Last(Ra)
    IN IF Tq <= T_End
       THEN <<Tq, Np_Interp(Tq, Ta, Ra)>>
       ELSE Interp_Stop(Tq, T_End, R_End)

\* lines 73-74 on an empty trace: T_Array[-1] raises IndexError
Interp_Index_Error ==
    /\ prog = "fall" /\ pc = "interp"
    /\ Len(Time_List) = 0
    /\ pc' = "raised"
    /\ UNCHANGED <<prog, In, fallVars, interpVars, kickVars, orbitVars, frameVars, importVars>>

\* lines 79-85: one pass of the loop over the query times
Interp_Query ==
    /\ prog = "fall" /\ pc = "interp"
    /\ Len(Time_List) > 0
    /\ Len(T_Out) < MaxFrames
    /\ \E Tq \in Query_Set :
          LET out == Interp_One(Tq, Time_List, R_List)
          IN /\ T_Query' = Append(T_Query, Tq)
             /\ T_Out' = Append(T_Out, out[1])
             /\ R_Out' = Append(R_Out, out[2])
    /\ UNCHANGED <<prog, pc, In, fallVars, kickVars, orbitVars, frameVars, importVars>>

\* line 87
Interp_Return ==
    /\ prog = "fall" /\ pc = "interp"
    /\ Len(Time_List) > 0
    /\ Len(T_Out) = MaxFrames
    /\ pc' = "done"
    /\ UNCHANGED <<prog, In, fallVars, interpVars, kickVars, orbitVars, frameVars, importVars>>

(***************************************************************************)
(* Simulate_With_Tangential_Kick (Law "newton") and                        *)
(* Simulate_Orbit_GR_With_Tangential_Kick (Law "gr", Dim = 3)              *)
(***************************************************************************)
Kick_G_Set == {0, 16 * Q}
Kick_R0_Set == {4 * Q}
Kick_V0_Set == {0, 2 * Q, 4 * Q}
Kick_V1_Set == {Q, 3 * Q}
Kick_Dt_Set == {Half}
Kick_C_Set == {4 * Q}
\* before the start, on a step, between two steps, half way, after the end
Kick_Time_Set ==
    {-Half, 0, (3 * Half) \div 8, Half \div 2, (3 * Half) \div 4, Half,
     (3 * Half) \div 2, (5 * Half) \div 2, 100 * Q}
Kick_T_Total_Set == {k * Half : k \in 0..MaxKickSpan} \cup {Half + 1}

Kick_Laws == [Law : {"newton"}, Dim : {2, 3}] \cup [Law : {"gr"}, Dim : {3}]

\* Potential(Dim, G, R)
Potential(Dim, G, r) ==
    IF Dim = 2 THEN FMul(G, Ln(r))
    ELSE FMul(FDiv(-G, (Dim - 2) * Q), Pow(r, -(Dim - 2)))

\* Acc_Vector(Dim, G, Pos): (-G) * Pos / (R ** Dim)
Acc_Vector(Dim, G, p) == VDivide(VScale(-G, p), Pow(Norm(p), Dim))

\* Energy_Lz_Speed(Dim, G, Pos, Vel): <<E, Lz, Speed>>
Energy_Lz_Speed(Dim, G, p, v) ==
    LET r == Norm(p)
        Speed == Norm(v)
        E == FMul(FMul(Half, Speed), Speed) + Potential(Dim, G, r)
        Lz == IF Len(p) >= 2 THEN FMul(p[1], v[2]) - FMul(p[2], v[1]) ELSE 0
    IN <<E, Lz, Speed>>

\* Potential_GR_Effective(G, C, R, L2): -G/R - (G*L2)/((C*C)*(R**3))
Potential_GR_Effective(G, C, r, L2) ==
    FDiv(-G, r) - FDiv(FMul(G, L2), FMul(FMul(C, C), Pow(r, 3)))

\* Acc_Vector_GR_Approx(G, C, Pos, Vel)
Acc_Vector_GR_Approx(G, C, p, v) ==
    LET r == Norm(p)
        R3 == Pow(r, 3)
        A_Newton == VDivide(VScale(-G, p), R3)
        L_Vec == Cross(p, v)
        L2 == Dot(L_Vec, L_Vec)
        A_GR == VScale(FDiv(FMul(FMul(-3 * Q, G), L2),
                            FMul(FMul(C, C), Pow(r, 5))), p)
    IN VAdd(A_Newton, A_GR)

\* Energy_Lz_Speed_GR_Effective(G, C, Pos, Vel): <<E, Lz, Speed>>
Energy_Lz_Speed_GR_Effective(G, C, p, v) ==
    LET r == Norm(p)
        Speed == Norm(v)
        L_Vec == Cross(p, v)
        L2 == Dot(L_Vec, L_Vec)
        Lz == L_Vec[3]
        E == FMul(FMul(Half, Speed), Speed) + Potential_GR_Effective(G, C, r, L2)
    IN <<E, Lz, Speed>>

\* the acceleration call of the simulator that runs
Acceleration(cfg, p, v) ==
    IF cfg.Law = "gr" THEN Acc_Vector_GR_Approx(cfg.G, cfg.C, p, v)
    ELSE Acc_Vector(cfg.Dim, cfg.G, p)

\* mutant: the caller takes the energy and the angular momentum in the wrong
\* order
Diagnostics_Swapped(cfg, p, v) ==
    LET D == IF cfg.Law = "gr"
             THEN Energy_Lz_Speed_GR_Effective(cfg.G, cfg.C, p, v)
             ELSE Energy_Lz_Speed(cfg.Dim, cfg.G, p, v)
    IN <<D[2], D[1], D[3]>>

\* the diagnostics call of the simulator that runs
Diagnostics(cfg, p, v) ==
    IF cfg.Law = "gr" THEN Energy_Lz_Speed_GR_Effective(cfg.G, cfg.C, p, v)
    ELSE Energy_Lz_Speed(cfg.Dim, cfg.G, p, v)

\* Circular_Speed(Dim, G, R0): sqrt(G) if Dim == 2, else
\* sqrt(G / (R0 ** (Dim - 2))); sqrt(x / Q) * Q = sqrt(x * Q)
Circular_Speed(Dim, G, R0) ==
    IF Dim = 2 THEN ISqrt(G * Q)
    ELSE ISqrt(FDiv(G, Pow(R0, Dim - 2)) * Q)

\* Step_Count = int(Np.ceil(T_Total / Dt)) + 1
Compute_Step_Count(T_Total, Dt) == Ceil_Div(T_Total, Dt) + 1

\* Kick_Step = int(round(Kick_Time / Dt)); max(0, min(Step_Count - 1, Kick_Step))
Compute_Kick_Step(Kick_Time, Dt, n) ==
    Max2(0, Min2(n - 1, Round_Half_Even(Kick_Time, Dt)))

\* mutant: the kick waits for the iteration after Kick_Step
Kick_Due_Late(done, s, ks) == (~done) /\ (s > ks)

\* if (not Kick_Done) and (Step >= Kick_Step):
Kick_Due(done, s, ks) == (~done) /\ (s >= ks)

\* mutant: the new velocity has magnitude V1 but always points along +y
Kick_Rescale_Along_Y(v, V1) == [i \in 1..Len(v) |-> IF i = 2 THEN V1 ELSE 0]

\* mutant: Vel *= V1, the division by the current speed is missing
Kick_Rescale_Unnormalised(v, V1) == VScale(V1, v)

\* Speed0 = norm(Vel); if Speed0 > 0.0: Vel *= (V1 / Speed0)
Kick_Rescale(v, V1) ==
    LET Speed0 == Norm(v)
    IN IF Speed0 > 0 THEN VScale(FDiv(V1, Speed0), v) ELSE v

\* mutant: the flag is never set
Kick_Mark_Done_Forgotten(done) == done

\* Kick_Done = True
Kick_Mark_Done(done) == TRUE

\* mutant: the factor 0.5 of the acceleration term is missing
Verlet_Pos_No_Half(p, v, Acc0, Dt) ==
    VAdd(VAdd(p, VScale(Dt, v)), VScale(Dt, VScale(Dt, Acc0)))

\* Pos_New = Pos + Vel * Dt + 0.5 * Acc0 * Dt * Dt
Verlet_Pos(p, v, Acc0, Dt) ==
    VAdd(VAdd(p, VScale(Dt, v)), VScale(Dt, VScale(Dt, VScale(Half, Acc0))))

\* mutant: the velocity is advanced with the old acceleration only
Verlet_Vel_Old_Acc(v, Acc0, Acc1, Dt) == VAdd(v, VScale(Dt, Acc0))

\* mutant: the second evaluation takes the velocity advanced by Acc0 * Dt
Acc1_Velocity_Predicted(v, Acc0, Dt) == VAdd(v, VScale(Dt, Acc0))

\* the velocity argument of the second acceleration call,
\* Acc1 = Acc_Vector_GR_Approx(G, C, Pos_New, Vel): Vel is not yet updated
Acc1_Velocity(v, Acc0, Dt) == v

\* Vel = Vel + 0.5 * (Acc0 + Acc1) * Dt
Verlet_Vel(v, Acc0, Acc1, Dt) ==
    VAdd(v, VScale(Dt, VScale(Half, VAdd(Acc0, Acc1))))

\* T_Array = Np.arange(Step_Count) * Dt
Arange_Times(n, Dt) == [i \in 1..n |-> (i - 1) * Dt]

\* mutant: the record is written one index too low
Store_Index_Low(s) == Max2(1, s)

\* Pos_Array[Step, :] = Pos and its siblings write index Step
Store_Index(s) == s + 1

\* R = float(Np.linalg.norm(Pos)) is 0.0
At_Centre(p) == Norm(p) = 0

\* runs whose first step ends exactly in the centre: started at rest at
\* R0 = 2 with Dt = 0.5, G = 64 under an inverse-square force (Dim = 3) and
\* G = 32 under the force G / R (Dim = 2); kept if the step does end there
\* on the grid
Kick_Centre_Inputs ==
    {c \in [Law : {"newton", "gr"}, Dim : {2, 3}, G : {32 * Q, 64 * Q},
            C : Kick_C_Set, R0 : {2 * Q}, V0 : {0}, V1 : Kick_V1_Set,
            Kick_Time : {0, 100 * Q}, Dt : {Half},
            T_Total : {0, 2 * Half}] :
        /\ [Law |-> c.Law, Dim |-> c.Dim] \in Kick_Laws
        /\ (c.Dim = 3 <=> c.G = 64 * Q)
        /\ LET Pos0 == [Zeros(c.Dim) EXCEPT ![1] = c.R0]
               Vel0 == Zeros(c.Dim)
           IN At_Centre(Verlet_Pos(Pos0, Vel0, Acceleration(c, Pos0, Vel0), c.Dt))}

\* runs whose kick asks for the speed the run started with (V1 = V0), from a
\* circular start and from a faster or slower one, kicked at step 0, 1, 2
\* and at the last step
Kick_Same_Speed_Inputs ==
    {c \in [Law : {"newton"}, Dim : {2, 3}, G : {16 * Q}, C : Kick_C_Set,
            R0 : Kick_R0_Set, V0 : {2 * Q, 4 * Q}, V1 : {2 * Q, 4 * Q},
            Kick_Time : {0, Half, 2 * Half, 100 * Q}, Dt : Kick_Dt_Set,
            T_Total : {k * Half : k \in 0..MaxKickSpan}] :
        c.V1 = c.V0}

\* A body started at rest falls straight into the centre, where the
\* acceleration is undefined; those runs are kept to two steps.  A body
\* kicked to a lower speed dives close to the centre, where the
\* accelerations leave the range of the fixed-point numbers; those runs
\* are kept to four time steps.  Without attraction (G = 0) the body leaves
\* on a straight line and the fifth power of its radius in the weak-field
\* term leaves that range; G = 0 is run under the Newtonian law only.
Kick_Inputs ==
    {c \in [Law : {"newton", "gr"}, Dim : {2, 3}, G : Kick_G_Set, C : Kick_C_Set,
            R0 : Kick_R0_Set, V0 : Kick_V0_Set, V1 : Kick_V1_Set,
            Kick_Time : Kick_Time_Set, Dt : Kick_Dt_Set,
            T_Total : Kick_T_Total_Set] :
        /\ [Law |-> c.Law, Dim |-> c.Dim] \in Kick_Laws
        /\ (c.V0 = 0 => c.T_Total <= c.Dt)
        /\ (c.V1 < c.V0 => c.T_Total <= 4 * c.Dt)
        /\ (c.G = 0 => c.Law = "newton")}
       \cup Kick_Centre_Inputs \cup Kick_Same_Speed_Inputs

Kick_Init ==
    /\ Frame_Idle
    /\ Import_Idle
    /\ prog = "kick"
    /\ pc = "kick"
    /\ In \in Kick_Inputs
    /\ Fall_Idle
    /\ Orbit_Idle
    /\ Step_Count = Compute_Step_Count(In.T_Total, In.Dt)
    /\ Pos = [Zeros(In.Dim) EXCEPT ![1] = In.R0]
    /\ Vel = [Zeros(In.Dim) EXCEPT ![2] = In.V0]
    /\ Pos_Array = [i \in 1..Step_Count |-> Zeros(In.Dim)]
    /\ Vel_Array = [i \in 1..Step_Count |-> Zeros(In.Dim)]
    /\ E_Array = [i \in 1..Step_Count |-> 0]
    /\ Lz_Array = [i \in 1..Step_Count |-> 0]
    /\ S_Array = [i \in 1..Step_Count |-> 0]
    /\ T_Array = Arange_Times(Step_Count, In.Dt)
    /\ Kick_Step = Compute_Kick_Step(In.Kick_Time, In.Dt, Step_Count)
    /\ Kick_Done = FALSE
    /\ Step = 0
    /\ Age = 0
    /\ Age_Array = [i \in 1..Step_Count |-> -1]
    /\ Kick_Log = <<>>

\* one pass of the loop body: the kick block, the integrator step, the record
Kick_Iterate ==
    /\ prog = "kick" /\ pc = "kick"
    /\ Range_Has_Next(Step, Step_Count)
    /\ \E due \in {Kick_Due(Kick_Done, Step, Kick_Step)} :
       \E Vel_K \in {IF due THEN Kick_Rescale(Vel, In.V1) ELSE Vel} :
       \E Acc0 \in {Acceleration(In, Pos, Vel_K)} :
       \E Pos_New \in {Verlet_Pos(Pos, Vel_K, Acc0, In.Dt)} :
       ~At_Centre(Pos_New) /\
       \E Acc1 \in {Acceleration(In, Pos_New, Acc1_Velocity(Vel_K, Acc0, In.Dt))} :
       \E Vel_New \in {Verlet_Vel(Vel_K, Acc0, Acc1, In.Dt)} :
       \E D \in {Diagnostics(In, Pos_New, Vel_New)} :
       \E i \in {Store_Index(Step)} :
          /\ Kick_Done' = IF due THEN Kick_Mark_Done(Kick_Done) ELSE Kick_Done
          /\ Kick_Log' = IF due
                         THEN Append(Kick_Log,
                                     [Step |-> Step, Pos |-> Pos, Speed0 |-> Norm(Vel),
                                      Vel_Before |-> Vel, Vel_After |-> Vel_K])
                         ELSE Kick_Log
          /\ Pos' = Pos_New
          /\ Vel' = Vel_New
          /\ Age' = Age + 1
          /\ Pos_Array' = [Pos_Array EXCEPT ![i] = Pos_New]
          /\ Vel_Array' = [Vel_Array EXCEPT ![i] = Vel_New]
          /\ E_Array' = [E_Array EXCEPT ![i] = D[1]]
          /\ Lz_Array' = [Lz_Array EXCEPT ![i] = D[2]]
          /\ S_Array' = [S_Array EXCEPT ![i] = D[3]]
          /\ Age_Array' = [Age_Array EXCEPT ![i] = Age + 1]
    /\ Step' = Step + 1
    /\ UNCHANGED <<prog, pc, In, fallVars, interpVars, Step_Count, Kick_Step, T_Array,
                   orbitVars, frameVars, importVars>>

\* a pass of the loop body whose new position is the centre.  In 031
\* Acc_Vector divides arrays by 0.0 (NaN, a warning only) and the call of
\* Energy_Lz_Speed raises in Potential (math.log(0.0): ValueError;
\* 0.0 ** -1: ZeroDivisionError); in 032 Acc_Vector_GR_Approx divides
\* floats by 0.0 and raises ZeroDivisionError.  The exception leaves the
\* simulator: nothing is stored for this step and nothing is returned.
Kick_Raise ==
    /\ prog = "kick" /\ pc = "kick"
    /\ Range_Has_Next(Step, Step_Count)
    /\ \E due \in {Kick_Due(Kick_Done, Step, Kick_Step)} :
       \E Vel_K \in {IF due THEN Kick_Rescale(Vel, In.V1) ELSE Vel} :
       \E Acc0 \in {Acceleration(In, Pos, Vel_K)} :
       \E Pos_New \in {Verlet_Pos(Pos, Vel_K, Acc0, In.Dt)} :
          /\ At_Centre(Pos_New)
          /\ Kick_Done' = IF due THEN Kick_Mark_Done(Kick_Done) ELSE Kick_Done
          /\ Kick_Log' = IF due
                         THEN Append(Kick_Log,
                                     [Step |-> Step, Pos |-> Pos, Speed0 |-> Norm(Vel),
                                      Vel_Before |-> Vel, Vel_After |-> Vel_K])
                         ELSE Kick_Log
    /\ pc' = "raised"
    /\ UNCHANGED <<prog, In, fallVars, interpVars, Pos, Vel, Step, Step_Count,
                   Kick_Step, Pos_Array, Vel_Array, E_Array, Lz_Array, S_Array,
                   T_Array, Age, Age_Array, orbitVars, frameVars, importVars>>

\* the loop is over: return Pos_Array, ..., T_Array, Kick_Step
Kick_Return ==
    /\ prog = "kick" /\ pc = "kick"
    /\ ~Range_Has_Next(Step, Step_Count)
    /\ pc' = "done"
    /\ UNCHANGED <<prog, In, fallVars, interpVars, kickVars, orbitVars, frameVars, importVars>>

(***************************************************************************)
(* Simulate_Multi_Circular_Orbits                                          *)
(***************************************************************************)
Orbit_G_Set == {16 * Q}
Orbit_Radius_Set == {4 * Q, 8 * Q}
Orbit_V_Orbit_Set == {4 * Q}
Orbit_Dt_Set == {Half \div 2}

\* the lists of 1 .. MaxBodies radii
Orbit_R_Lists == UNION {[1..n -> Orbit_Radius_Set] : n \in 1..MaxBodies}

Orbit_Inputs ==
    [G : Orbit_G_Set, R_List : Orbit_R_Lists, V_Orbit : Orbit_V_Orbit_Set,
     Dt : Orbit_Dt_Set, Step_Count : 0..MaxOrbitSteps]

\* sin(pi / 3) on the grid
Sin_60 == (866 * Q) \div 1000

\* Np.cos(Angle_Array[I]) with Angle_Array = linspace(0, 2 pi, n, endpoint =
\* False), for n <= 4 bodies; I counts from 0
Orbit_Cos(I, n) ==
    IF I = 0 THEN Q
    ELSE IF n = 2 THEN -Q
    ELSE IF n = 3 THEN -Half
    ELSE IF I = 2 THEN -Q ELSE 0

\* Np.sin(Angle_Array[I])
Orbit_Sin(I, n) ==
    IF I = 0 \/ n = 2 THEN 0
    ELSE IF n = 3 THEN (IF I = 1 THEN Sin_60 ELSE -Sin_60)
    ELSE IF I = 1 THEN Q ELSE IF I = 3 THEN -Q ELSE 0

\* lines 49-56: the start state <<X, Y, Vx, Vy>> of the body with index I
\* (from 0) of n bodies
Orbit_Start(R_Orbit, V_Orbit, I, n) ==
    <<FMul(R_Orbit, Orbit_Cos(I, n)), FMul(R_Orbit, Orbit_Sin(I, n)),
      FMul(-V_Orbit, Orbit_Sin(I, n)), FMul(V_Orbit, Orbit_Cos(I, n))>>

\* def Acc(Xv, Yv): R = hypot(Xv, Yv); Factor = -G / (R * R)
Orbit_Acc(G, Xv, Yv) ==
    LET r == Norm(<<Xv, Yv>>)
        Factor == FDiv(-G, FMul(r, r))
    IN <<FMul(Factor, Xv), FMul(Factor, Yv)>>

\* mutant: the accelerations are read one body further on
Orbit_Acc_Index_Shifted(i, n) == (i % n) + 1

\* Ax0[I], Ay0[I] = Acc(float(X[I]), float(Y[I])): the body whose position
\* gives the acceleration of body i
Orbit_Acc_Index(i, n) == i

\* for I in range(Body_Count): A[I] = Acc(X[I], Y[I])
Orbit_Acc_All(G, Xs, Ys) ==
    [i \in 1..Len(Xs) |->
        Orbit_Acc(G, Xs[Orbit_Acc_Index(i, Len(Xs))], Ys[Orbit_Acc_Index(i, Len(Xs))])]

\* X_New = X + Vx * Dt + 0.5 * Ax0 * Dt * Dt, one component of one body
Orbit_Pos_New(x, v, a0, Dt) == x + FMul(v, Dt) + FMul(FMul(FMul(Half, a0), Dt), Dt)

\* mutant: the velocity is advanced with the old acceleration only
Orbit_Vel_New_Euler(v, a0, a1, Dt) == v + FMul(a0, Dt)

\* Vx_New = Vx + 0.5 * (Ax0 + Ax1) * Dt
Orbit_Vel_New(v, a0, a1, Dt) == v + FMul(FMul(Half, a0 + a1), Dt)

Orbit_Init ==
    /\ Frame_Idle
    /\ Import_Idle
    /\ prog = "orbit"
    /\ pc = "orbit"
    /\ In \in Orbit_Inputs
    /\ Fall_Idle
    /\ Kick_Idle
    /\ LET n == Len(In.R_List)
           S0(i) == Orbit_Start(In.R_List[i], In.V_Orbit, i - 1, n)
       IN /\ X = [i \in 1..n |-> S0(i)[1]]
          /\ Y = [i \in 1..n |-> S0(i)[2]]
          /\ Vx = [i \in 1..n |-> S0(i)[3]]
          /\ Vy = [i \in 1..n |-> S0(i)[4]]
          /\ X_Array = [i \in 1..n |-> [k \in 1..In.Step_Count |-> 0]]
          /\ Y_Array = [i \in 1..n |-> [k \in 1..In.Step_Count |-> 0]]
    /\ Orbit_Step = 0

\* lines 63-86: one pass of the loop, all bodies at once
Orbit_Iterate ==
    /\ prog = "orbit" /\ pc = "orbit"
    /\ Range_Has_Next(Orbit_Step, In.Step_Count)
    /\ \E n \in {Len(X)} :
       \E A0 \in {Orbit_Acc_All(In.G, X, Y)} :
       \E X_New \in {[i \in 1..n |-> Orbit_Pos_New(X[i], Vx[i], A0[i][1], In.Dt)]} :
       \E Y_New \in {[i \in 1..n |-> Orbit_Pos_New(Y[i], Vy[i], A0[i][2], In.Dt)]} :
       \E A1 \in {Orbit_Acc_All(In.G, X_New, Y_New)} :
          /\ Vx' = [i \in 1..n |-> Orbit_Vel_New(Vx[i], A0[i][1], A1[i][1], In.Dt)]
          /\ Vy' = [i \in 1..n |-> Orbit_Vel_New(Vy[i], A0[i][2], A1[i][2], In.Dt)]
          /\ X' = X_New
          /\ Y' = Y_New
          /\ X_Array' = [i \in 1..n |->
                            [X_Array[i] EXCEPT ![Store_Index(Orbit_Step)] = X_New[i]]]
          /\ Y_Array' = [i \in 1..n |->
                            [Y_Array[i] EXCEPT ![Store_Index(Orbit_Step)] = Y_New[i]]]
    /\ Orbit_Step' = Orbit_Step + 1
    /\ UNCHANGED <<prog, pc, In, fallVars, interpVars, kickVars, frameVars, importVars>>

\* line 88: return X_Array, Y_Array
Orbit_Return ==
    /\ prog = "orbit" /\ pc = "orbit"
    /\ ~Range_Has_Next(Orbit_Step, In.Step_Count)
    /\ pc' = "done"
    /\ UNCHANGED <<prog, In, fallVars, interpVars, kickVars, orbitVars, frameVars, importVars>>

(***************************************************************************)
(* The frame-to-sample mapping of Make_Animation (031), Make_GR_Animation  *)
(* (032) and Make_Orbit_And_Line_Animation (030), applied to the trace the  *)
(* simulator returned                                                      *)
(***************************************************************************)
Frame_Fps_Set == {1, 2}
Frame_Time_Scale_Set == {Half, 3 * Half, 2 * Q}
Frame_Count_Set == {1, 2, 3, 5}

\* Frame_Count = int(Np.ceil((T_Total / Time_Scale) * Fps)) + 1
Compute_Frame_Count(T_Total, Time_Scale, Fps) ==
    Ceil_Div(FDiv(T_Total, Time_Scale) * Fps, Q) + 1

\* T_Video = Np.arange(Frame_Count) / float(Fps); T_Phys = T_Video *
\* float(Time_Scale): the physical time of frame f (from 0)
Frame_Time(f, Fps, Time_Scale) == FMul((f * Q) \div Fps, Time_Scale)

\* Np.linspace(0.0, T_Total, Frame_Count)[f]: f * step with step =
\* T_Total / (Frame_Count - 1), the last entry set to T_Total
Linspace(T_Total, n, f) ==
    IF n = 1 THEN 0
    ELSE IF f = n - 1 THEN T_Total
    ELSE f * (T_Total \div (n - 1))

\* (x).astype(int) of a float: truncation toward zero
As_Int(x) == IF x >= 0 THEN x \div Q ELSE -((-x) \div Q)

\* mutant: the upper end of the clip is missing
Clip_Low_Only(i, lo, hi) == Max2(i, lo)

\* Np.clip(i, lo, hi)
Clip(i, lo, hi) == Min2(Max2(i, lo), hi)

\* Np.clip((T / float(Dt)).astype(int), 0, len(T) - 1) for one frame time
Frame_Index(t, Dt, Sample_Count) == Clip(As_Int(FDiv(t, Dt)), 0, Sample_Count - 1)

\* 031 lines 186-190, 032 lines 193-197: the frames of the video of a kick
\* run and the trace index of each
Make_Animation_Idx ==
    /\ prog = "kick" /\ pc = "done"
    /\ Frame = No_Frame
    /\ \E Fps \in Frame_Fps_Set, Time_Scale \in Frame_Time_Scale_Set :
       \E n \in {Compute_Frame_Count(In.T_Total, Time_Scale, Fps)} :
          /\ Frame' = [Fps |-> Fps, Time_Scale |-> Time_Scale,
                       T_Total |-> In.T_Total, Frame_Count |-> n]
          /\ Idx' = [f \in 1..n |->
                        Frame_Index(Frame_Time(f - 1, Fps, Time_Scale), In.Dt,
                                    Len(T_Array))]
    /\ UNCHANGED <<prog, pc, In, fallVars, interpVars, kickVars, orbitVars, importVars>>

\* 030 lines 117-119: the frames of the video of the circular orbits, for
\* a T_Total that gives the Step_Count of the run
Make_Orbit_Animation_Idx ==
    /\ prog = "orbit" /\ pc = "done"
    /\ Frame = No_Frame
    /\ \E n \in Frame_Count_Set :
       \E T_Total \in {k * (In.Dt \div 2) : k \in 0..(2 * MaxOrbitSteps)} :
          /\ Compute_Step_Count(T_Total, In.Dt) = In.Step_Count
          /\ Frame' = [Fps |-> 0, Time_Scale |-> 0, T_Total |-> T_Total,
                       Frame_Count |-> n]
          /\ Idx' = [f \in 1..n |->
                        Frame_Index(Linspace(T_Total, n, f - 1), In.Dt,
                                    In.Step_Count)]
    /\ UNCHANGED <<prog, pc, In, fallVars, interpVars, kickVars, orbitVars, importVars>>

(***************************************************************************)
(* _Cmd_Import_Text_File (src/dings-gpt.py): the command line after option  *)
(* parsing, and what the command finds in and does to the directory:        *)
(*   Source  the file to import is at its place                             *)
(*   Data    the target <Next_Id><suffix>: "none", "dir" (the name is taken *)
(*           by something that is not a regular file), or how the import    *)
(*           made it: "copy", "move", "link"                                *)
(*   Alias   the alias name: "none", "old" (there before), "new"            *)
(*   Md      the side-car <Next_Id>.md: "none", "old", "new"                *)
(***************************************************************************)
Import_Mode_Set == {"copy", "move", "link", "other"}
Import_Suffix_Set == {".py", ".txt"}
\* -about-file: not given, names a missing file, a file of valid pairs, a
\* file with an invalid pair
Import_About_File_Set == {"none", "missing", "valid", "invalid"}

Import_Inputs ==
    [Help : BOOLEAN, Args_Ok : BOOLEAN, Source_Exists : BOOLEAN,
     Mode : Import_Mode_Set, Suffix : Import_Suffix_Set,
     Alias_Given : BOOLEAN, Alias_Exists : BOOLEAN, Overwrite : BOOLEAN,
     About_File : Import_About_File_Set, About_Valid : BOOLEAN,
     Md_Exists : BOOLEAN, Target_Exists : BOOLEAN]

\* the directory as the command finds it
Dir_Start(c) ==
    [Source |-> c.Source_Exists,
     Data |-> IF c.Target_Exists THEN "dir" ELSE "none",
     Alias |-> IF c.Alias_Exists THEN "old" ELSE "none",
     Md |-> IF c.Md_Exists THEN "old" ELSE "none"]

Import_Init ==
    /\ prog = "import"
    /\ pc = "args"
    /\ In \in Import_Inputs
    /\ Fall_Idle
    /\ Kick_Idle
    /\ Orbit_Idle
    /\ Frame_Idle
    /\ Dir = Dir_Start(In)
    /\ Error = "none"

\* _Die(Message): raise SystemExit
Die(Kind) == pc' = "died" /\ Error' = Kind

\* lines 284-317: help, the option checks, the source file
Import_Check_Args ==
    /\ prog = "import" /\ pc = "args"
    /\ IF In.Help THEN pc' = "done" /\ Error' = Error
       ELSE IF ~In.Args_Ok THEN Die("args")
       ELSE IF ~In.Source_Exists THEN Die("source")
       ELSE pc' = "copy" /\ Error' = Error
    /\ UNCHANGED <<prog, In, fallVars, interpVars, kickVars, orbitVars, frameVars, Dir>>

\* _Copy_Move_Link(Source, Target, Mode) with a free target and a known mode
Copy_Move_Link(d, Mode) ==
    [d EXCEPT !.Data = Mode, !.Source = (Mode # "move")]

\* lines 319-325: Next_Id, the target paths, _Copy_Move_Link (lines 103-113)
Import_Copy_Move_Link ==
    /\ prog = "import" /\ pc = "copy"
    /\ IF Dir.Data # "none" THEN Die("target") /\ Dir' = Dir
       ELSE IF In.Mode \notin {"copy", "move", "link"} THEN Die("mode") /\ Dir' = Dir
       ELSE /\ Dir' = Copy_Move_Link(Dir, In.Mode)
            /\ pc' = "alias" /\ Error' = Error
    /\ UNCHANGED <<prog, In, fallVars, interpVars, kickVars, orbitVars, frameVars>>

\* lines 327-344: the optional alias
Import_Alias ==
    /\ prog = "import" /\ pc = "alias"
    /\ IF ~In.Alias_Given THEN pc' = "about" /\ Error' = Error /\ Dir' = Dir
       ELSE IF Dir.Alias # "none" /\ ~In.Overwrite THEN Die("alias") /\ Dir' = Dir
       ELSE /\ Dir' = [Dir EXCEPT !.Alias = "new"]
            /\ pc' = "about" /\ Error' = Error
    /\ UNCHANGED <<prog, In, fallVars, interpVars, kickVars, orbitVars, frameVars>>

\* lines 346-424: the text of the side-car; the suffix, the about-file and
\* the about pairs are checked here
Import_About ==
    /\ prog = "import" /\ pc = "about"
    /\ IF In.Suffix # ".py" THEN Die("suffix")
       ELSE IF In.About_File = "missing" THEN Die("about_file")
       ELSE IF In.About_File = "invalid" \/ ~In.About_Valid THEN Die("about_pair")
       ELSE pc' = "write" /\ Error' = Error
    /\ UNCHANGED <<prog, In, fallVars, interpVars, kickVars, orbitVars, frameVars, Dir>>

\* lines 426-430: _Write_Text (lines 259-264) and the report
Import_Write_Text ==
    /\ prog = "import" /\ pc = "write"
    /\ IF Dir.Md # "none" /\ ~In.Overwrite THEN Die("sidecar") /\ Dir' = Dir
       ELSE /\ Dir' = [Dir EXCEPT !.Md = "new"]
            /\ pc' = "done" /\ Error' = Error
    /\ UNCHANGED <<prog, In, fallVars, interpVars, kickVars, orbitVars, frameVars>>

(***************************************************************************)
(* Specification                                                           *)
(***************************************************************************)
Init == Fall_Init \/ Kick_Init \/ Orbit_Init \/ Import_Init

Next ==
    \/ Fall_Break
    \/ Fall_Clamp
    \/ Fall_Step
    \/ Fall_Exhausted
    \/ Interp_Index_Error
    \/ Interp_Query
    \/ Interp_Return
    \/ Kick_Iterate
    \/ Kick_Raise
    \/ Kick_Return
    \/ Orbit_Iterate
    \/ Orbit_Return
    \/ Make_Animation_Idx
    \/ Make_Orbit_Animation_Idx
    \/ Import_Check_Args
    \/ Import_Copy_Move_Link
    \/ Import_Alias
    \/ Import_About
    \/ Import_Write_Text

Spec == Init /\ [][Next]_vars

FairSpec == Spec /\ WF_vars(Next)

(***************************************************************************)
(* Properties                                                              *)
(***************************************************************************)
\* Simulate_Radial_Fall has returned
Fall_Returned == prog = "fall" /\ pc # "fall"

\* the kick simulator has returned
Kick_Returned == prog = "kick" /\ pc = "done"

\* the circular-orbit simulator has returned
Orbit_Returned == prog = "orbit" /\ pc = "done"

\* the simulator was left by an exception: it returned nothing
Kick_Raised == prog = "kick" /\ pc = "raised"

\* tolerance of comparisons "up to floating tolerance": 0.25
Tol == Q \div 4

\* the state the kick simulators start from
Kick_Pos_Start == [Zeros(In.Dim) EXCEPT ![1] = In.R0]
Kick_Vel_Start == [Zeros(In.Dim) EXCEPT ![2] = In.V0]

\* Kick_Time lies inside the simulated run
Kick_Inside_Run == 0 <= In.Kick_Time /\ In.Kick_Time <= (Step_Count - 1) * In.Dt

Abs(x) == IF x >= 0 THEN x ELSE -x

\* C1: a radial fall that reaches the boundary within Step_Count steps ends
\* with a last trace entry of radius exactly R_Min; no entry lies below
\* R_Min, and the entry equal to R_Min is the last one recorded.
C1_TerminationClamp ==
    (prog = "fall" /\ Exit = "clamp") =>
        /\ Len(R_List) >= 1
        /\ Len(Time_List) = Len(R_List)
        /\ Last(R_List) = In.R_Min
        /\ \A i \in 1..Len(R_List) : R_List[i] >= In.R_Min
        /\ \A i \in 1..(Len(R_List) - 1) : R_List[i] > In.R_Min

C1_Witness ==
    /\ prog = "fall" /\ pc = "done" /\ Exit = "clamp"
    /\ In.V_Start <= 0 /\ In.R_Start > In.R_Min
    /\ Len(R_List) >= 3

\* C2: every query time beyond the last trace time is answered with the
\* trace's final time and final radius, so two such queries get the same
\* answer.
C2_ResamplerClamp ==
    prog = "fall" =>
        /\ \A i \in 1..Len(T_Out) :
              T_Query[i] > Last(Time_List) =>
                  T_Out[i] = Last(Time_List) /\ R_Out[i] = Last(R_List)
        /\ \A i, j \in 1..Len(T_Out) :
              (T_Query[i] > T_Query[j] /\ T_Query[j] > Last(Time_List)) =>
                  T_Out[i] = T_Out[j] /\ R_Out[i] = R_Out[j]

C2_Witness ==
    /\ prog = "fall" /\ pc = "done"
    /\ Len(T_Out) >= 2
    /\ T_Query[1] > T_Query[2] /\ T_Query[2] > Last(Time_List)
    /\ Len(Time_List) >= 2


\* C3 (as claimed): in the recorded trace the speed of the entry before the
\* kick step is V0, the speed of the entry of the kick step is V1, and the
\* position is continuous across the kick.
C3_RecordedSpeedsAreV0V1 ==
    (Kick_Returned /\ Kick_Step >= 1 /\ In.V0 > 0) =>
        /\ Abs(S_Array[Kick_Step] - In.V0) <= Tol
        /\ Abs(S_Array[Kick_Step + 1] - In.V1) <= Tol
        /\ Kick_Log[1].Pos = Pos_Array[Kick_Step]

\* C3 (amended): the kick block takes the state left by the previous step
\* (the last recorded entry, or the start state at step 0, whose speed is V0),
\* leaves the position alone and rescales a non-zero velocity to magnitude V1
\* (up to rounding); the entry recorded at the kick step is taken only after
\* the integrator step that follows the kick.
C3_KickDiscontinuity ==
    prog = "kick" =>
        \A k \in 1..Len(Kick_Log) :
            LET e == Kick_Log[k]
            IN /\ e.Step = 0 =>
                     /\ e.Pos = Kick_Pos_Start
                     /\ e.Vel_Before = Kick_Vel_Start
                     /\ e.Speed0 = In.V0
               /\ e.Step >= 1 =>
                     /\ e.Pos = Pos_Array[e.Step]
                     /\ e.Vel_Before = Vel_Array[e.Step]
                     /\ e.Speed0 = S_Array[e.Step]
               /\ e.Speed0 > 0 => Abs(Norm(e.Vel_After) - In.V1) <= Tol
               /\ Step > e.Step => Age_Array[e.Step + 1] = e.Step + 1

C3_Witness ==
    /\ Kick_Returned /\ Kick_Step >= 1 /\ In.V0 > 0
    /\ Len(Kick_Log) = 1
    /\ Abs(S_Array[Kick_Step + 1] - In.V1) > Tol
    /\ Abs(Norm(Kick_Log[1].Vel_After) - In.V1) <= 1

\* C4: the kick block runs exactly once per run: never again once Kick_Done
\* is set, and always before the run ends; a Kick_Time beyond the run is
\* applied at step Step_Count - 1, a Kick_Time <= 0 at step 0 on the start
\* state.
C4_KickExactlyOnce ==
    prog = "kick" =>
        /\ Len(Kick_Log) <= 1
        /\ Kick_Done <=> (Len(Kick_Log) = 1)
        /\ pc = "done" => Kick_Done
        /\ \A k \in 1..Len(Kick_Log) :
              LET e == Kick_Log[k]
              IN /\ e.Step \in 0..(Step_Count - 1)
                 /\ In.Kick_Time > (Step_Count - 1) * In.Dt => e.Step = Step_Count - 1
                 /\ In.Kick_Time <= 0 =>
                       /\ e.Step = 0
                       /\ e.Pos = Kick_Pos_Start
                       /\ e.Vel_Before = Kick_Vel_Start

C4_Witness ==
    /\ Kick_Returned
    /\ Step_Count >= 4
    /\ Len(Kick_Log) = 1 /\ Kick_Log[1].Step = 1
    /\ Kick_Log[1].Vel_After # Kick_Log[1].Vel_Before

C6_InitialStateRecordedFirst ==
    /\ (Fall_Returned /\ Len(Time_List) >= 1) =>
          Time_List[1] = 0 /\ R_List[1] = In.R_Start
    /\ Kick_Returned =>
          /\ T_Array[1] = 0
          /\ Pos_Array[1] = Kick_Pos_Start
          /\ Vel_Array[1] = Kick_Vel_Start

\* C7 (as claimed): consecutive trace times differ by Dt, and the time of an
\* entry is the simulated time of the state stored in it (Dt times the number
\* of integrator steps that produced the state).
C7_TimesMatchStates ==
    /\ Fall_Returned =>
          /\ \A i \in 1..(Len(Time_List) - 1) :
                Time_List[i + 1] - Time_List[i] = In.Dt
          /\ \A i \in 1..Len(Time_List) : Time_List[i] = i * In.Dt
    /\ Kick_Returned =>
          /\ \A i \in 1..(Len(T_Array) - 1) : T_Array[i + 1] - T_Array[i] = In.Dt
          /\ \A i \in 1..Len(T_Array) : T_Array[i] = Age_Array[i] * In.Dt

\* C8: when a run has returned, all its trace sequences have one length, the
\* number of steps executed; it is at most Step_Count, and less only if the
\* termination rule fired.
C8_TraceLengths ==
    /\ Fall_Returned =>
          LET n == Len(Time_List)
          IN /\ Len(R_List) = n
             /\ n = (IF Exit = "guard" THEN Iter - 1 ELSE Iter)
             /\ T = n * In.Dt
             /\ n <= In.Step_Count
             /\ n < In.Step_Count => Exit \in {"guard", "clamp"}
    /\ Kick_Returned =>
          /\ Len(Pos_Array) = Step_Count /\ Len(Vel_Array) = Step_Count
          /\ Len(E_Array) = Step_Count /\ Len(Lz_Array) = Step_Count
          /\ Len(S_Array) = Step_Count /\ Len(T_Array) = Step_Count
          /\ Age = Step_Count
          /\ \A i \in 1..Step_Count : Age_Array[i] = i

C8_Witness ==
    /\ Fall_Returned /\ Exit = "clamp"
    /\ Len(Time_List) >= 2
    /\ Len(Time_List) < In.Step_Count

\* C9 (as claimed): for every Step_Count >= 1 and R_Start > R_Min the last
\* recorded radius of the finished radial fall equals R_Min.
C9_LastRadiusIsRMin ==
    (Fall_Returned /\ In.Step_Count >= 1 /\ In.R_Start > In.R_Min) =>
        Len(R_List) >= 1 /\ Last(R_List) = In.R_Min

\* C9 (amended): for Step_Count >= 1 and R_Start > R_Min the finished radial
\* fall ends either by the clamp, and then its last radius equals R_Min, or
\* by using up Step_Count, and then it has Step_Count entries and its last
\* radius is above R_Min; nothing is recorded after either.
C9_LastRadiusByExit ==
    (Fall_Returned /\ In.Step_Count >= 1 /\ In.R_Start > In.R_Min) =>
        /\ Len(R_List) >= 1
        /\ Exit \in {"clamp", "exhausted"}
        /\ Exit = "clamp" => Last(R_List) = In.R_Min /\ R = In.R_Min
        /\ Exit = "exhausted" =>
              /\ Last(R_List) > In.R_Min
              /\ Len(R_List) = In.Step_Count
        /\ Last(R_List) = R

C9_Witness ==
    /\ Fall_Returned /\ Exit = "exhausted"
    /\ In.R_Start > In.R_Min /\ In.V_Start <= 0
    /\ In.Step_Count >= 2
    /\ Last(R_List) > In.R_Min

\* C10: every run terminates: the loop never begins more than Step_Count
\* iterations, and the simulator returns, with Step_Count entries or earlier
\* by the termination rule (or it is ended earlier still by an exception).
C10_Terminates ==
    /\ [](prog = "fall" => Iter <= In.Step_Count)
    /\ [](prog = "kick" => Step <= Step_Count)
    /\ [](prog = "orbit" => Orbit_Step <= In.Step_Count)
    /\ [](Fall_Returned =>
             Len(Time_List) = In.Step_Count \/ Exit \in {"guard", "clamp"})
    /\ [](Kick_Returned => Age = Step_Count)
    /\ [](Orbit_Returned => Orbit_Step = In.Step_Count)
    /\ (prog \in {"fall", "kick", "orbit"} =>
           <>(Fall_Returned \/ Kick_Returned \/ Kick_Raised \/ Orbit_Returned))

C10_Witness ==
    /\ Kick_Returned
    /\ Step = Step_Count
    /\ Step_Count >= 5

\* R_Value is, up to the rounding of one division and one product, the point
\* at time Tq of the straight line through samples j and j + 1
On_Chord(Ta, Ra, j, Tq, R_Value) ==
    LET dT == Ta[j + 1] - Ta[j]
    IN Abs((R_Value - Ra[j]) * dT - (Ra[j + 1] - Ra[j]) * (Tq - Ta[j])) <= 2 * dT

\* C11 (as claimed): every query time Tq <= T_Array[-1] is answered with the
\* time Tq itself and with the radius interpolated linearly between the two
\* trace samples that bracket Tq (or the sample itself when Tq is a sample
\* time).
C11_InterpolatesBetweenBrackets ==
    prog = "fall" =>
        \A i \in 1..Len(T_Out) :
            T_Query[i] <= Last(Time_List) =>
                /\ T_Out[i] = T_Query[i]
                /\ \/ \E j \in 1..Len(Time_List) :
                         T_Query[i] = Time_List[j] /\ R_Out[i] = R_List[j]
                   \/ \E j \in 1..(Len(Time_List) - 1) :
                         /\ Time_List[j] <= T_Query[i]
                         /\ T_Query[i] <= Time_List[j + 1]
                         /\ On_Chord(Time_List, R_List, j, T_Query[i], R_Out[i])

\* the part of C11 that the code keeps: queries from the first sample on
C11_InsideTrace ==
    prog = "fall" =>
        \A i \in 1..Len(T_Out) :
            (Time_List[1] <= T_Query[i] /\ T_Query[i] <= Last(Time_List)) =>
                /\ T_Out[i] = T_Query[i]
                /\ \/ \E j \in 1..Len(Time_List) :
                         T_Query[i] = Time_List[j] /\ R_Out[i] = R_List[j]
                   \/ \E j \in 1..(Len(Time_List) - 1) :
                         /\ Time_List[j] < T_Query[i]
                         /\ T_Query[i] < Time_List[j + 1]
                         /\ On_Chord(Time_List, R_List, j, T_Query[i], R_Out[i])

\* C12: a query at exactly the time of trace sample k is answered with that
\* time and with the radius recorded in sample k, for every k, the last
\* sample included.
C12_KnotRoundTrip ==
    prog = "fall" =>
        \A i \in 1..Len(T_Out) : \A k \in 1..Len(Time_List) :
            T_Query[i] = Time_List[k] =>
                T_Out[i] = Time_List[k] /\ R_Out[i] = R_List[k]

C12_Witness ==
    /\ prog = "fall" /\ pc = "done"
    /\ Len(Time_List) >= 3
    /\ Len(T_Out) >= 2
    /\ T_Query[1] = Time_List[2]
    /\ T_Query[2] = Last(Time_List)
    /\ R_List[1] # R_List[2] /\ R_List[2] # Last(R_List)

\* Lz = x * vy - y * vx of a position and a velocity
Lz_Of(p, v) == FMul(p[1], v[2]) - FMul(p[2], v[1])

\* Lz of the start state and of the state the kick block leaves
Lz_Start == Lz_Of(Kick_Pos_Start, Kick_Vel_Start)
Lz_After_Kick == Lz_Of(Kick_Log[1].Pos, Kick_Log[1].Vel_After)

\* rounding allowed on a recorded Lz, whose size is up to 16: 0.5
Lz_Tol == Q \div 2

\* C13 (as claimed): the recorded Lz has one value in all entries before the
\* kick step and one other value in all entries from the kick step on; over
\* the trace it changes exactly once, at the kick step.
C13_LzTwoExactValues ==
    Kick_Returned =>
        /\ \A i, j \in 1..Step_Count :
              (i <= Kick_Step /\ j <= Kick_Step) => Lz_Array[i] = Lz_Array[j]
        /\ \A i, j \in 1..Step_Count :
              (i > Kick_Step /\ j > Kick_Step) => Lz_Array[i] = Lz_Array[j]
        /\ Kick_Step >= 1 => Lz_Array[Kick_Step] # Lz_Array[Kick_Step + 1]

\* C13 (amended): up to rounding, every entry recorded before the kick step
\* holds the Lz of the start state and every entry from the kick step on
\* holds the Lz of the state the kick block left; an integrator step changes
\* the recorded Lz by rounding only, and the kick multiplies Lz by
\* V1 / Speed0.
C13_LzPlateaus ==
    prog = "kick" =>
        /\ \A i \in 1..Step :
              /\ i <= Kick_Step => Abs(Lz_Array[i] - Lz_Start) <= Lz_Tol
              /\ i > Kick_Step => Abs(Lz_Array[i] - Lz_After_Kick) <= Lz_Tol
        /\ \A k \in 1..Len(Kick_Log) :
              LET e == Kick_Log[k]
              IN e.Speed0 > 0 =>
                    Abs(Lz_After_Kick * e.Speed0
                        - Lz_Of(e.Pos, e.Vel_Before) * In.V1) <= Lz_Tol * e.Speed0

C13_Witness ==
    /\ Kick_Returned
    /\ Step_Count >= 5 /\ Kick_Step = 2
    /\ Abs(Lz_After_Kick - Lz_Start) > 4 * Lz_Tol
    /\ Lz_Array[1] # Lz_Array[2]

\* what the simulator keeps and returns about its kick: the flag Kick_Done
\* (and the index Kick_Step); there is no third value for a skipped rescale
Kick_Status == IF Kick_Done THEN "applied" ELSE "pending"

\* C14 (as claimed): when the velocity is zero at the kick step the rescale is
\* skipped, the velocity is left as it is, the event is flagged as a no-op
\* kick, and the run goes on to its normal end without a second kick.
C14_ZeroVelocityKickFlagged ==
    prog = "kick" =>
        \A k \in 1..Len(Kick_Log) :
            LET e == Kick_Log[k]
            IN e.Speed0 = 0 =>
                  /\ e.Vel_After = e.Vel_Before
                  /\ Kick_Status = "noop"
                  /\ Len(Kick_Log) = 1
                  /\ pc = "done" => Step = Step_Count

\* the part of C14 that the code keeps: skipped, unchanged, not retried
C14_ZeroVelocityKickSkipped ==
    prog = "kick" =>
        \A k \in 1..Len(Kick_Log) :
            LET e == Kick_Log[k]
            IN e.Speed0 = 0 =>
                  /\ e.Vel_After = e.Vel_Before
                  /\ Kick_Done
                  /\ Len(Kick_Log) = 1
                  /\ pc = "done" => Step = Step_Count /\ Age = Step_Count

\* a run whose kick met a zero velocity went on and moved afterwards
C14_SkippedReached ==
    /\ Kick_Returned /\ Step_Count = 2
    /\ Len(Kick_Log) = 1 /\ Kick_Log[1].Speed0 = 0 /\ Kick_Log[1].Step = 0
    /\ Norm(Vel_Array[1]) > 0

\* the configurations the specification calls invalid
Fall_Config_Invalid == In.Step_Count <= 0 \/ In.Dt <= 0 \/ In.G <= 0
Kick_Config_Invalid == In.Dt <= 0 \/ In.G <= 0

\* C15 (as claimed): a run with Step_Count <= 0, Dt <= 0 or G <= 0 is rejected
\* before any integration step: no step is executed and the simulator does
\* not return a trace, not even an empty one.
C15_InvalidConfigurationRejected ==
    /\ (prog = "fall" /\ Fall_Config_Invalid) =>
          /\ Iter = 0 /\ Time_List = <<>>
          /\ ~Fall_Returned
    /\ (prog = "kick" /\ Kick_Config_Invalid) =>
          /\ Step = 0 /\ Age = 0
          /\ ~Kick_Returned

\* what the code does with such configurations: it runs them like any other
C15_InvalidConfigurationRuns ==
    /\ (prog = "fall" /\ Fall_Config_Invalid /\ Exit = "exhausted") =>
          Len(Time_List) = In.Step_Count
    /\ (Kick_Returned /\ Kick_Config_Invalid) => Age = Step_Count

C15_RunsReached ==
    \/ /\ Fall_Returned /\ In.Step_Count = 0 /\ Len(Time_List) = 0
    \/ /\ Fall_Returned /\ In.G = 0 /\ In.Dt > 0 /\ Len(Time_List) = MaxFallSteps
    \/ /\ Kick_Returned /\ In.G = 0 /\ Step_Count >= 3

\* C16 (as claimed): a run in which a non-finite value arises is stopped at
\* that step and hands back the trace recorded so far, so every run that has
\* ended has returned a trace.
C16_DivergenceReturnsPartialTrace ==
    (prog = "kick" /\ pc # "kick") => pc = "done"

\* what the code does when the body reaches the centre: the step is not
\* recorded and the run ends in the exception
C16_CentreRaises ==
    Kick_Raised =>
        /\ Step < Step_Count
        /\ \A i \in 1..Step_Count : i > Step => Age_Array[i] = -1

C16_RaisedReached ==
    /\ Kick_Raised /\ In.Law = "newton" /\ In.Dim = 2
    /\ Step = 0 /\ Step_Count = 3
    /\ Len(Kick_Log) = 1 /\ Kick_Log[1].Speed0 = 0

\* w is a non-negative multiple of v, up to the rounding of each component
Same_Direction(v, w) ==
    /\ \A i \in 1..Len(v) :
          /\ v[i] = 0 => w[i] = 0
          /\ v[i] * w[i] >= 0
    /\ \A i, j \in 1..Len(v) :
          Abs(w[i] * v[j] - w[j] * v[i]) <= Abs(v[i]) + Abs(v[j])

\* C17: the kick of a non-zero velocity v gives a velocity of magnitude V1
\* (up to rounding) that is a non-negative multiple of v, in every component
\* and every dimension.
C17_KickPreservesDirection ==
    prog = "kick" =>
        \A k \in 1..Len(Kick_Log) :
            LET e == Kick_Log[k]
            IN e.Speed0 > 0 =>
                  /\ Len(e.Vel_After) = In.Dim
                  /\ Same_Direction(e.Vel_Before, e.Vel_After)
                  /\ Abs(Norm(e.Vel_After) - In.V1) <= Tol

C17_Witness ==
    /\ Kick_Returned
    /\ Len(Kick_Log) = 1 /\ Kick_Log[1].Step >= 2
    /\ Kick_Log[1].Vel_Before[1] < 0
    /\ Kick_Log[1].Vel_Before[2] > 0
    /\ Kick_Log[1].Vel_After[1] < Kick_Log[1].Vel_Before[1]
    /\ In.Dim = 3

\* the two velocity-Verlet formulas, written out for one component
Verlet_Position(x, v, a0, Dt) == x + FMul(v, Dt) + FMul(FMul(FMul(Half, a0), Dt), Dt)
Verlet_Velocity(v, a0, a1, Dt) == v + FMul(FMul(Half, a0 + a1), Dt)

\* the velocity the integrator step of a kick simulator starts from: the
\* kicked one if the kick block ran in this pass
Kick_Vel_Stepped == IF Len(Kick_Log') > Len(Kick_Log) THEN Last(Kick_Log').Vel_After ELSE Vel

\* a step of the radial fall that is not the clamp: both R and V are new
Fall_Step_Is_Verlet ==
    (prog = "fall" /\ pc = "fall" /\ pc' = "fall" /\ Iter' = Iter + 1) =>
        LET A0 == Acc(In.G, R)
            A1 == Acc(In.G, R')
        IN /\ R' = Verlet_Position(R, V, A0, In.Dt)
           /\ V' = Verlet_Velocity(V, A0, A1, In.Dt)
           /\ Last(R_List') = R'

\* a pass of the multi-orbit loop, body by body
Orbit_Step_Is_Verlet ==
    (prog = "orbit" /\ Orbit_Step' = Orbit_Step + 1) =>
        \A i \in 1..Len(X) :
            LET A0 == Orbit_Acc(In.G, X[i], Y[i])
                A1 == Orbit_Acc(In.G, X'[i], Y'[i])
            IN /\ X'[i] = Verlet_Position(X[i], Vx[i], A0[1], In.Dt)
               /\ Y'[i] = Verlet_Position(Y[i], Vy[i], A0[2], In.Dt)
               /\ Vx'[i] = Verlet_Velocity(Vx[i], A0[1], A1[1], In.Dt)
               /\ Vy'[i] = Verlet_Velocity(Vy[i], A0[2], A1[2], In.Dt)

\* a pass of the loop of a kick simulator, component by component; the
\* weak-field acceleration at the new position takes the velocity the step
\* started from
Kick_Step_Is_Verlet ==
    (prog = "kick" /\ Step' = Step + 1) =>
        LET v == Kick_Vel_Stepped
            A0 == Acceleration(In, Pos, v)
            A1 == Acceleration(In, Pos', v)
        IN \A k \in 1..In.Dim :
              /\ Pos'[k] = Verlet_Position(Pos[k], v[k], A0[k], In.Dt)
              /\ Vel'[k] = Verlet_Velocity(v[k], A0[k], A1[k], In.Dt)

\* C18: every integrator step of the radial fall, the multi-orbit simulator
\* and the two kick simulators is the velocity-Verlet step: a0 at the old
\* position, the new position from it, a1 at the new position, the new
\* velocity from a0 and a1; position and velocity are replaced in one step.
C18_EveryStepIsVerlet ==
    [][Fall_Step_Is_Verlet /\ Orbit_Step_Is_Verlet /\ Kick_Step_Is_Verlet]_vars

C18_Witness ==
    /\ Kick_Returned /\ In.Law = "gr"
    /\ Step_Count >= 4 /\ Kick_Step = 2
    /\ Pos_Array[4] # Pos_Array[3] /\ Vel_Array[4] # Vel_Array[3]

\* energy, Lz and speed of the state stored at index i, computed afresh
Derived_At(i) ==
    IF In.Law = "gr"
    THEN Energy_Lz_Speed_GR_Effective(In.G, In.C, Pos_Array[i], Vel_Array[i])
    ELSE Energy_Lz_Speed(In.Dim, In.G, Pos_Array[i], Vel_Array[i])

\* C19: at every recorded index the stored energy, Lz and speed are the
\* energy, Lz and speed functions of the position and velocity stored at that
\* same index.
C19_DiagnosticsAreDerived ==
    prog = "kick" =>
        \A i \in 1..Step :
            /\ E_Array[i] = Derived_At(i)[1]
            /\ Lz_Array[i] = Derived_At(i)[2]
            /\ S_Array[i] = Derived_At(i)[3]
            /\ Lz_Array[i] = Lz_Of(Pos_Array[i], Vel_Array[i])
            /\ S_Array[i] = Norm(Vel_Array[i])

C19_Witness ==
    /\ Kick_Returned /\ Step_Count >= 4 /\ Kick_Step = 2
    /\ E_Array[2] # E_Array[3]
    /\ \A i \in 1..Step_Count : E_Array[i] # Lz_Array[i]
    /\ Pos_Array[3] # Pos_Array[4]

\* one velocity-Verlet step of a single body <<x, y, vx, vy>> on its own
Body_Step(G, Dt, s) ==
    LET A0 == Orbit_Acc(G, s[1], s[2])
        x1 == Verlet_Position(s[1], s[3], A0[1], Dt)
        y1 == Verlet_Position(s[2], s[4], A0[2], Dt)
        A1 == Orbit_Acc(G, x1, y1)
    IN <<x1, y1, Verlet_Velocity(s[3], A0[1], A1[1], Dt),
         Verlet_Velocity(s[4], A0[2], A1[2], Dt)>>

\* the state of a single body after k steps from the start state s
RECURSIVE Body_After(_, _, _, _)
Body_After(G, Dt, s, k) ==
    IF k = 0 THEN s ELSE Body_Step(G, Dt, Body_After(G, Dt, s, k - 1))

\* the entries recorded for body i are those of a body simulated alone from
\* the start state s
Row_Is_Track_From(i, s) ==
    \A k \in 1..Orbit_Step :
        LET b == Body_After(In.G, In.Dt, s, k)
        IN X_Array[i][k] = b[1] /\ Y_Array[i][k] = b[2]

\* C20 (as claimed): the trajectory recorded for body i is the same whatever
\* the other entries of R_List are, their values or their number: it is the
\* one the body has when the entries after it are left out.
C20_SameForAnyOtherBodies ==
    prog = "orbit" =>
        \A i \in 1..Len(In.R_List) :
            Row_Is_Track_From(i, Orbit_Start(In.R_List[i], In.V_Orbit, i - 1, i))

\* C20 (amended): the trajectory recorded for body i is that of a body
\* simulated alone from body i's own start state, which is fixed by
\* R_List[i], V_Orbit and the start angle 2 pi i / Body_Count; the values of
\* the other entries do not enter it, their number enters through the start
\* angle only.
C20_BodiesIndependent ==
    prog = "orbit" =>
        \A i \in 1..Len(In.R_List) :
            Row_Is_Track_From(i, Orbit_Start(In.R_List[i], In.V_Orbit, i - 1,
                                             Len(In.R_List)))

C20_Witness ==
    /\ prog = "orbit" /\ pc = "done"
    /\ Len(In.R_List) = 3 /\ In.Step_Count = MaxOrbitSteps
    /\ In.R_List[1] # In.R_List[2] /\ In.R_List[2] = In.R_List[3]
    /\ X_Array[2] # X_Array[3] /\ Y_Array[1] # Y_Array[2]

\* the central law with exponent k: -G * p / |p| ** k (k = 2: the
\* inverse-linear law, k = 3: the inverse-square law)
Central_Law(k, G, p) == VDivide(VScale(-G, p), Pow(Norm(p), k))

\* C21 (as claimed): the force law is selectable independently of the
\* dimension: for position vectors of either length there is, among the
\* configurations the simulator accepts, one that applies the inverse-linear
\* law and one that applies the inverse-square law.
C21_LawSelectableInEveryDimension ==
    (prog = "kick" /\ In.Law = "newton" /\ In.G > 0) =>
        \A k \in {2, 3} :
            \E c \in Kick_Laws :
                /\ c.Law = "newton"
                /\ Len(Zeros(c.Dim)) = Len(Pos)
                /\ Acc_Vector(c.Dim, In.G, Kick_Pos_Start)
                       = Central_Law(k, In.G, Kick_Pos_Start)

\* what the code does: the one argument Dim is the length of the position
\* vector and the exponent of the law, in every step of every run
C21_LawFollowsDimension ==
    [][(prog = "kick" /\ In.Law = "newton" /\ Step' = Step + 1) =>
          /\ Len(Pos) = In.Dim
          /\ Pos' = Verlet_Pos(Pos, Kick_Vel_Stepped,
                               Central_Law(Len(Pos), In.G, Pos), In.Dt)]_vars

C21_FollowsReached ==
    /\ Kick_Returned /\ In.Law = "newton" /\ In.G > 0 /\ Step_Count >= 3
    /\ Len(Pos) = 2
    /\ Central_Law(2, In.G, Pos) # Central_Law(3, In.G, Pos)

\* max(E) - min(E) over the entries recorded so far
E_Range ==
    LET Es == {E_Array[i] : i \in 1..Step}
    IN (CHOOSE hi \in Es : \A e \in Es : e <= hi)
       - (CHOOSE lo \in Es : \A e \in Es : lo <= e)

\* tolerance granted to the recorded energy: 1.0.  It covers the rounding of
\* the grid over a run and the truncation error of the integrator at
\* Dt = 0.5, and is far above the 1e-6 relative of the claim
E_Tol == Q

Kick_Without_Effect ==
    \A k \in 1..Len(Kick_Log) : Kick_Log[k].Vel_After = Kick_Log[k].Vel_Before

Is_Nearest_Even(n, d, r) ==
    /\ 2 * Abs(r * d - n) <= d
    /\ 2 * Abs(r * d - n) = d => r % 2 = 0

\* above the largest quotient Kick_Time / Dt of the runs
Max_Kick_Quotient == (100 * Q) \div Half + 1

\* C23: Kick_Step is the integer nearest to Kick_Time / Dt (ties to the even
\* one) clamped into [0, Step_Count - 1]; the kick block runs in loop
\* iteration Kick_Step and in no other; it acts on the state the previous
\* iteration left (a recorded grid state, or the start state), with the full
\* rescale to V1, also when Kick_Time lies between two steps, and no sample is
\* added at Kick_Time.
C23_KickTimingRule ==
    prog = "kick" =>
        /\ Kick_Step \in 0..(Step_Count - 1)
        /\ \E r \in (-2)..Max_Kick_Quotient :
              /\ Is_Nearest_Even(In.Kick_Time, In.Dt, r)
              /\ Kick_Step = (IF r < 0 THEN 0
                              ELSE IF r > Step_Count - 1 THEN Step_Count - 1
                              ELSE r)
        /\ pc # "raised" => Len(Kick_Log) = (IF Step > Kick_Step THEN 1 ELSE 0)
        /\ Len(Kick_Log) <= 1
        /\ \A k \in 1..Len(Kick_Log) :
              LET e == Kick_Log[k]
              IN /\ e.Step = Kick_Step
                 /\ e.Pos = (IF e.Step = 0 THEN Kick_Pos_Start ELSE Pos_Array[e.Step])
                 /\ e.Vel_Before = (IF e.Step = 0 THEN Kick_Vel_Start
                                    ELSE Vel_Array[e.Step])
                 /\ e.Speed0 > 0 => Abs(Norm(e.Vel_After) - In.V1) <= Tol
        /\ Len(T_Array) = Step_Count
        /\ \A i \in 1..Step_Count : T_Array[i] = (i - 1) * In.Dt

C23_Witness ==
    /\ Kick_Returned
    /\ In.Kick_Time = (5 * Half) \div 2 /\ Kick_Step = 2
    /\ Step_Count >= 4
    /\ In.Kick_Time % In.Dt # 0
    /\ Len(Kick_Log) = 1
    /\ Kick_Log[1].Vel_After # Kick_Log[1].Vel_Before

\* the position and the velocity that the iteration recorded at index i
\* started from: the entry before it (the start state for i = 1), with the
\* velocity the kick block left if it ran in that iteration
Step_Pos_Before(i) == IF i = 1 THEN Kick_Pos_Start ELSE Pos_Array[i - 1]
Step_Vel_Before(i) ==
    IF Len(Kick_Log) = 1 /\ Kick_Log[1].Step = i - 1 THEN Kick_Log[1].Vel_After
    ELSE IF i = 1 THEN Kick_Vel_Start ELSE Vel_Array[i - 1]

\* C24: in the weak-field simulator every recorded entry is the Verlet step
\* of the entry before it in which both accelerations, a0 at the old position
\* and a1 at the new position, are evaluated with the velocity the step
\* started from (the kicked one in the kick iteration); the velocity the step
\* produces enters the accelerations of the next step only.
C24_BothEvaluationsUsePreStepVelocity ==
    (prog = "kick" /\ In.Law = "gr") =>
        \A i \in 1..Step :
            LET p0 == Step_Pos_Before(i)
                v0 == Step_Vel_Before(i)
                a0 == Acc_Vector_GR_Approx(In.G, In.C, p0, v0)
                a1 == Acc_Vector_GR_Approx(In.G, In.C, Pos_Array[i], v0)
            IN /\ Pos_Array[i] = Verlet_Pos(p0, v0, a0, In.Dt)
               /\ Vel_Array[i] = Verlet_Vel(v0, a0, a1, In.Dt)

C24_Witness ==
    /\ Kick_Returned /\ In.Law = "gr" /\ Step_Count >= 4 /\ Kick_Step = 1
    /\ \E i \in 2..Step_Count :
          LET p0 == Step_Pos_Before(i)
              v0 == Step_Vel_Before(i)
              a0 == Acc_Vector_GR_Approx(In.G, In.C, p0, v0)
              a1_new == Acc_Vector_GR_Approx(In.G, In.C, Pos_Array[i], Vel_Array[i])
          IN Vel_Array[i] # Verlet_Vel(v0, a0, a1_new, In.Dt)

\* an iteration of the radial fall that evaluates A0 = Acc(R): one that gets
\* past the guard, and so records an entry
Fall_Evaluates_A0 ==
    prog = "fall" /\ pc = "fall" /\ Len(Time_List') = Len(Time_List) + 1

\* an iteration that also evaluates A1 = Acc(R_New): one that does not break;
\* its R_New is the new R
Fall_Evaluates_A1 == Fall_Evaluates_A0 /\ pc' = "fall"

\* C25: in Simulate_Radial_Fall the acceleration is evaluated only at a radius
\* strictly above R_Min: Acc(R) behind the guard R > R_Min, Acc(R_New) behind
\* R_New > R_Min; with R_Min >= 0 never at radius 0.
C25_AccOnlyAboveRMin ==
    [][/\ Fall_Evaluates_A0 => (R > In.R_Min /\ R # 0)
       /\ Fall_Evaluates_A1 =>
             /\ R' = Fall_R_New(R, V, Acc(In.G, R), In.Dt)
             /\ R' > In.R_Min /\ R' # 0]_vars

C25_Witness ==
    /\ Fall_Returned /\ In.R_Min = 0 /\ Exit = "clamp"
    /\ Len(R_List) >= 3
    /\ Last(R_List) = 0
    /\ R_List[Len(R_List) - 1] < Q

\* C26 (as claimed): every trace that Simulate_Radial_Fall returns has at
\* least one entry, so Interpolate_R_T_With_Stop finds its clamp target
\* (T_Array[-1], R_Array[-1]) and never fails on it, for every input.
C26_TraceNeverEmpty ==
    Fall_Returned =>
        /\ Len(Time_List) >= 1 /\ Len(R_List) >= 1
        /\ pc # "raised"

\* what the code does: the trace is empty exactly when no iteration got past
\* the guard (Step_Count <= 0 or R_Start <= R_Min), and the interpolation of
\* an empty trace ends in the IndexError
C26_EmptyTraceRaises ==
    Fall_Returned =>
        /\ Len(Time_List) = 0 <=> (In.Step_Count <= 0 \/ In.R_Start <= In.R_Min)
        /\ pc = "raised" => Len(Time_List) = 0
        /\ pc = "done" => Len(Time_List) >= 1

C26_RaisedReached ==
    /\ prog = "fall" /\ pc = "raised"
    /\ In.Step_Count >= 1 /\ In.R_Start = In.R_Min /\ Exit = "guard"
    /\ Time_List = <<>>

\* C27 (as claimed): a query time before the first trace time (frame 0 is
\* queried at t = 0) is answered with that time and with the start radius
\* R_Start of the simulation.
C27_EarlyQueryShowsStart ==
    prog = "fall" =>
        \A i \in 1..Len(T_Out) :
            T_Query[i] < Time_List[1] =>
                T_Out[i] = T_Query[i] /\ R_Out[i] = In.R_Start

\* what the code does: the time is the query time, the radius is the first
\* recorded one, which is the radius after the first step
C27_EarlyQueryHoldsFirstSample ==
    prog = "fall" =>
        \A i \in 1..Len(T_Out) :
            T_Query[i] < Time_List[1] =>
                T_Out[i] = T_Query[i] /\ R_Out[i] = R_List[1]

C27_HeldReached ==
    /\ prog = "fall" /\ pc = "done"
    /\ Len(Time_List) >= 2
    /\ T_Query[1] = 0 /\ Time_List[1] > 0
    /\ R_Out[1] = R_List[1] /\ R_List[1] < In.R_Start

\* T_Query_Array is non-decreasing, as linspace(0, T_End_Max, Frame_Count) is
Query_Non_Decreasing ==
    \A i, j \in 1..Len(T_Query) : i <= j => T_Query[i] <= T_Query[j]

\* the series of Make_Combined_Animation_2x2: the same call for each G of
\* G_List
Series_End(G) ==
    Simulate_Radial_Fall(G, In.R_Start, In.V_Start, In.Dt, In.Step_Count, In.R_Min)

\* C28: for a non-decreasing query-time array the resampled times are
\* non-decreasing and never exceed T_Array[-1], and once a frame shows
\* (T_End, R_End) every later frame shows the same; in the combined
\* animation a series whose T_End is below that of another series of the
\* same call shows R_Min (at its own T_End) in all frames queried after its
\* own T_End.
C28_FreezeIsAbsorbing ==
    (prog = "fall" /\ Len(T_Out) >= 1) =>
        LET T_End == Last(Time_List)
            R_End == Last(R_List)
        IN /\ Series_End(In.G) = <<T_End, R_End, Len(Time_List)>>
           /\ \A i \in 1..Len(T_Out) : T_Out[i] <= T_End
           /\ Query_Non_Decreasing =>
                 \A i, j \in 1..Len(T_Out) :
                     i < j =>
                        /\ T_Out[i] <= T_Out[j]
                        /\ T_Out[i] = T_End =>
                              T_Out[j] = T_End /\ R_Out[j] = R_End
           /\ \A G2 \in Fall_G_Set :
                 LET T_End_Max == Max2(T_End, Series_End(G2)[1])
                 IN T_End < T_End_Max =>
                       \A i \in 1..Len(T_Out) :
                           (T_End < T_Query[i] /\ T_Query[i] <= T_End_Max) =>
                               T_Out[i] = T_End /\ R_Out[i] = In.R_Min

C28_Witness ==
    /\ prog = "fall" /\ pc = "done" /\ Exit = "clamp"
    /\ Len(Time_List) >= 2 /\ In.R_Min > 0
    /\ Len(T_Out) >= 2
    /\ T_Query[1] < Last(Time_List) /\ R_Out[1] > In.R_Min
    /\ T_Query[2] > Last(Time_List)
    /\ \E G2 \in Fall_G_Set :
          /\ Series_End(G2)[1] >= T_Query[2]
          /\ Series_End(G2)[2] = In.R_Min
          /\ Series_End(G2)[3] > Len(Time_List)

\* a video has been set up for the trace of the run
Frames_Mapped == Frame # No_Frame

\* number of samples of the trace the frames index: len(T), Step_Count
Sample_Count == IF prog = "kick" THEN Len(T_Array) ELSE In.Step_Count

\* the physical time of frame f (from 0): f / Fps * Time_Scale in the kick
\* videos, linspace(0, T_Total, Frame_Count)[f] in the circular-orbit video
Frame_Phys_Time(f) ==
    IF prog = "kick" THEN Frame_Time(f, Frame.Fps, Frame.Time_Scale)
    ELSE Linspace(Frame.T_Total, Frame.Frame_Count, f)

\* C29: for every frame f, Idx[f] is floor(T_Phys[f] / Dt) clipped into
\* [0, len(T) - 1], with T_Phys[f] = f / Fps * Time_Scale: a valid trace
\* index, the sample at or just before the frame's physical time (which is
\* f / Fps * Time_Scale up to the rounding of the quotient and the product);
\* Idx is non-decreasing in f, and a frame whose physical time lies beyond
\* the trace shows the last sample.
C29_FrameToSampleMapping ==
    Frames_Mapped =>
        /\ Len(Idx) = Frame.Frame_Count
        /\ \A f \in 1..Len(Idx) :
              LET t == Frame_Phys_Time(f - 1)
              IN /\ Idx[f] \in 0..(Sample_Count - 1)
                 /\ Idx[f] * In.Dt <= t
                 /\ Idx[f] < Sample_Count - 1 => t < (Idx[f] + 1) * In.Dt
                 /\ t > (Sample_Count - 1) * In.Dt => Idx[f] = Sample_Count - 1
                 /\ prog = "kick" =>
                       /\ t * Frame.Fps <= (f - 1) * Frame.Time_Scale
                       /\ ((f - 1) * Frame.Time_Scale - t * Frame.Fps) * Q
                              < (Frame.Time_Scale + Q) * Frame.Fps
                       /\ T_Array[Idx[f] + 1] <= t
                       /\ t > Last(T_Array) => T_Array[Idx[f] + 1] = Last(T_Array)
        /\ \A f, g \in 1..Len(Idx) : f <= g => Idx[f] <= Idx[g]

C29_Witness ==
    /\ Frames_Mapped /\ prog = "kick"
    /\ Len(T_Array) >= 5 /\ Len(Idx) >= 4
    /\ Idx[1] = 0
    /\ \E f \in 1..Len(Idx) :
          /\ Idx[f] \in 1..(Len(T_Array) - 2)
          /\ Frame_Phys_Time(f - 1) > T_Array[Idx[f] + 1]
    /\ Frame_Phys_Time(Len(Idx) - 1) > Last(T_Array)
    /\ Last(Idx) = Len(T_Array) - 1

\* the import command has ended with an error
Import_Died == prog = "import" /\ pc = "died"

\* C30 (as claimed): whenever the import command ends with an error the
\* directory is as it was before the command: no data file has been copied,
\* moved or linked and no alias has been created.
C30_ImportAllOrNothing ==
    Import_Died => Dir = Dir_Start(In)

\* what the code does: the data file is brought in before the alias, the
\* suffix, the about pairs and the side-car are looked at, so only the
\* errors raised up to _Copy_Move_Link leave the directory as it was; every
\* later error leaves the data file behind (and the source gone after a
\* move), and the errors after the alias step leave the alias as well
C30_ImportLeavesDataFile ==
    Import_Died =>
        /\ Error \in {"args", "source", "target", "mode"} => Dir = Dir_Start(In)
        /\ Error \in {"alias", "suffix", "about_file", "about_pair", "sidecar"} =>
              /\ Dir.Data = In.Mode /\ Dir_Start(In).Data = "none"
              /\ Dir.Source = (In.Mode # "move")
              /\ Dir.Md = Dir_Start(In).Md
        /\ (Error \in {"suffix", "about_file", "about_pair", "sidecar"}
              /\ In.Alias_Given) => Dir.Alias = "new"

C30_LeftBehindReached ==
    /\ Import_Died /\ Error = "suffix" /\ In.Suffix = ".txt"
    /\ In.Mode = "move" /\ In.Alias_Given /\ ~In.Alias_Exists
    /\ Dir.Data = "move" /\ ~Dir.Source /\ Dir.Alias = "new" /\ Dir.Md = "none"

=============================================================================
